---- MODULE Spec2Model ----
(***************************************************************************)
(* StyleSheetBuf: an owned, boxed String together with a StyleSheet whose  *)
(* `parsed` field borrows the trimmed part of that String (src/main.rs).   *)
(* The model follows the two entry points of the file, main and            *)
(* parse_file, and the destructors StyleSheetBuf::drop and                 *)
(* StyleSheet::drop statement by statement.                                *)
(***************************************************************************)
EXTENDS Integers, Sequences, FiniteSets, TLC

\* ------------------------------------------------------------------ bounds
MaxLen == 3      \* longest source text
NumAddrs == 2    \* heap addresses Box::new may return
NumSlots == 2    \* places a StyleSheetBuf value can be moved between
MaxOps == 2      \* calls the holder of parse_file's result makes before its scope ends

\* ------------------------------------------------------------- data model
Chars == {" ", "\n", "a", "."}
Strings == UNION {[1..n -> Chars] : n \in 0..MaxLen}
Addrs == 1..NumAddrs
Slots == 1..NumSlots

\* char::is_whitespace, the predicate str::trim matches with
IsWhitespace(c) == c \in {" ", "\n"}

None == [some |-> FALSE]
Some(v) == [some |-> TRUE, val |-> v]

\* A heap cell of the allocator: never handed out, live, or released.
\* frees counts the deallocations the allocator has seen for the address.
FreeCell == [live |-> FALSE, frees |-> 0, content |-> <<>>]

\* &str: a pointer into the text of the String at addr, and a length
StrRef(a, st, ln) == [addr |-> a, start |-> st, len |-> ln]

\* struct StyleSheet { parsed: &str }
StyleSheet(p) == [parsed |-> p]

\* struct StyleSheetBuf { source_ptr, sheet }
StyleSheetBuf(p, sh) == [source_ptr |-> p, sheet |-> sh]

\* All values a read through a dangling or uninitialised place can produce
AnyStrRef == {StrRef(a, st, ln) : a \in Addrs, st \in 1..(MaxLen + 1), ln \in 0..MaxLen}
AnySheet == {StyleSheet(p) : p \in AnyStrRef}

\* A line of standard output: the format string and its {:?} argument
Line(fmt, arg) == [fmt |-> fmt, arg |-> arg]

VARIABLES
    pc,        \* the statement the single thread is about to execute
    entry,     \* which function of the file started the run
    source,    \* the String handed to StyleSheetBuf::new
    heap,      \* the allocator's cells, by address
    owned,     \* the StyleSheetBuf value, if one exists
    loc,       \* the slot the StyleSheetBuf value currently lives in
    taken,     \* the Option<StyleSheet> moved out by take() and being dropped
    stack,     \* return addresses of the calls in progress
    ret,       \* the value the last accessor returned to its caller
    ops,       \* calls made so far by the holder of parse_file's result
    out        \* standard output

vars == <<pc, entry, source, heap, owned, loc, taken, stack, ret, ops, out>>

\* ---------------------------------------------------------- pure functions
\* The text a &str denotes. Reading a released String is undefined: any text
\* of the slice's length may come back.
StrAt(h, r) ==
    IF h[r.addr].live
    THEN {SubSeq(h[r.addr].content, r.start, r.start + r.len - 1)}
    ELSE {s \in Strings : Len(s) = r.len}

\* String::as_str on the boxed String
as_str(h, a) == StrRef(a, 1, Len(h[a].content))

\* str::trim = trim_matches(char::is_whitespace): the forward searcher's first
\* rejected char, then the backward searcher's first rejected char.
RECURSIVE next_reject(_, _)
next_reject(s, i) ==
    IF i > Len(s) THEN 0
    ELSE IF IsWhitespace(s[i]) THEN next_reject(s, i + 1) ELSE i

RECURSIVE next_reject_back(_, _, _)
next_reject_back(s, j, lo) ==
    IF j < lo THEN 0
    ELSE IF IsWhitespace(s[j]) THEN next_reject_back(s, j - 1, lo) ELSE j

\* str::trim_start in place of str::trim
trim_start_only(s) ==
    LET i == next_reject(s, 1) IN
    IF i = 0 THEN [first |-> 1, len |-> 0]
    ELSE [first |-> i, len |-> Len(s) - i + 1]

\* a trim that strips at most one whitespace char from each end
trim_one_each_end(s) ==
    IF s = <<>> THEN [first |-> 1, len |-> 0]
    ELSE LET i == IF IsWhitespace(s[1]) THEN 2 ELSE 1
             j == IF Len(s) >= i /\ IsWhitespace(s[Len(s)]) THEN Len(s) - 1 ELSE Len(s)
         IN IF j < i THEN [first |-> 1, len |-> 0]
            ELSE [first |-> i, len |-> j - i + 1]

\* the sub-range of s (1-based first index, length) that trim returns
trim(s) ==
    LET i == next_reject(s, 1) IN
    IF i = 0 THEN [first |-> 1, len |-> 0]
    ELSE LET j == next_reject_back(s, Len(s), i) IN
         [first |-> i, len |-> j - i + 1]

\* parse keeping the slice as given, without the trim
parse_no_trim(h, r) == StyleSheet(r)

\* StyleSheet::parse: the view is the trimmed sub-slice of the slice given
parse(h, r) ==
    LET t == trim(CHOOSE s \in StrAt(h, r) : TRUE) IN
    StyleSheet(StrRef(r.addr, r.start + t.first - 1, t.len))

\* StyleSheetBuf::sheet: unwrap_unchecked; on None the result is undefined
sheet(self) ==
    IF self.sheet.some THEN {self.sheet.val} ELSE AnySheet

\* deref rebuilding the slice from source_ptr instead of forwarding to sheet()
deref_from_source_ptr(self) ==
    {StyleSheet(StrRef(self.source_ptr, 1, v.parsed.len)) : v \in sheet(self)}

\* Deref::deref
deref(self) == sheet(self)

\* ------------------------------------------------------------------- Init
Init ==
    /\ pc = "start"
    /\ entry \in {"main", "parse_file"}
    /\ source = None
    /\ heap = [a \in Addrs |-> FreeCell]
    /\ owned = None
    /\ loc = 1
    /\ taken = None
    /\ stack = <<>>
    /\ ret = None
    /\ ops = 0
    /\ out = <<>>

\* ------------------------------------------------------ StyleSheetBuf::new
\* new without into_raw: the Box is dropped when new returns
new_box_dropped(h, src, a) ==
    LET h2 == [h EXCEPT ![a] = [live |-> TRUE, frees |-> 0, content |-> src]] IN
    [heap |-> [h2 EXCEPT ![a].live = FALSE, ![a].frees = 1],
     buf |-> StyleSheetBuf(a, Some(parse(h2, as_str(h2, a))))]

\* new leaving the sheet field None
new_sheet_none(h, src, a) ==
    LET h2 == [h EXCEPT ![a] = [live |-> TRUE, frees |-> 0, content |-> src]] IN
    [heap |-> h2, buf |-> StyleSheetBuf(a, None)]

\* Box::new + Box::into_raw put the String at address a; the view is parsed
\* from the text behind the raw pointer.
new(h, src, a) ==
    LET h2 == [h EXCEPT ![a] = [live |-> TRUE, frees |-> 0, content |-> src]] IN
    [heap |-> h2,
     buf |-> StyleSheetBuf(a, Some(parse(h2, as_str(h2, a))))]

\* The call `StyleSheetBuf::new(source)`: source is moved in, the result is
\* moved out to the caller's slot l.
CallNew(next) ==
    \E a \in Addrs, l \in Slots :
        /\ ~heap[a].live
        /\ LET r == new(heap, source.val, a) IN
            /\ heap' = r.heap
            /\ owned' = Some(r.buf)
        /\ loc' = l
        /\ source' = None
        /\ pc' = next
        /\ UNCHANGED <<entry, taken, stack, ret, ops, out>>

\* ------------------------------------------------------------------- main
main_String_from ==
    /\ pc = "start" /\ entry = "main"
    /\ \E s \in Strings : source' = Some(s)
    /\ pc' = "main_92"
    /\ UNCHANGED <<entry, heap, owned, loc, taken, stack, ret, ops, out>>

main_new ==
    /\ pc = "main_92"
    /\ CallNew("main_94")

\* print_parsed(&owned_sheet): the argument is coerced through Deref
main_print_parsed ==
    /\ pc = "main_94"
    /\ \E v \in deref(owned.val) : ret' = Some(v)
    /\ stack' = <<"main_95">> \o stack
    /\ pc' = "print_parsed_101"
    /\ UNCHANGED <<entry, source, heap, owned, loc, taken, ops, out>>

\* print_parsed keeping the &'static str it read
print_parsed_keeps ==
    /\ pc = "print_parsed_101"
    /\ \E t \in StrAt(heap, ret.val.parsed) :
        out' = Append(out, Line("parsed: {:?}", t))
    /\ pc' = Head(stack)
    /\ stack' = Tail(stack)
    /\ UNCHANGED <<entry, source, heap, owned, loc, taken, ret, ops>>

\* fn print_parsed: reads sheet.parsed, prints it, gives the borrow back
print_parsed ==
    /\ pc = "print_parsed_101"
    /\ \E t \in StrAt(heap, ret.val.parsed) :
        out' = Append(out, Line("parsed: {:?}", t))
    /\ ret' = None
    /\ pc' = Head(stack)
    /\ stack' = Tail(stack)
    /\ UNCHANGED <<entry, source, heap, owned, loc, taken, ops>>

main_println_will_drop ==
    /\ pc = "main_95"
    /\ out' = Append(out, Line("Will drop...", <<>>))
    /\ pc' = "main_96"
    /\ UNCHANGED <<entry, source, heap, owned, loc, taken, stack, ret, ops>>

\* the move into drop of a container that embeds the String: the text goes
\* to a new address and the view keeps pointing at the old one
main_drop_relocates ==
    /\ pc = "main_96"
    /\ \E l \in Slots \ {loc} : loc' = l
    /\ \E a \in Addrs \ {owned.val.source_ptr} :
        /\ heap' = [heap EXCEPT
                ![a] = [live |-> TRUE, frees |-> 0,
                        content |-> heap[owned.val.source_ptr].content],
                ![owned.val.source_ptr] = FreeCell]
        /\ owned' = Some(StyleSheetBuf(a, owned.val.sheet))
    /\ stack' = <<"main_97">> \o stack
    /\ pc' = "buf_drop_45"
    /\ UNCHANGED <<entry, source, taken, ret, ops, out>>

\* drop(owned_sheet): the value is moved into drop and destroyed there
main_drop ==
    /\ pc = "main_96"
    /\ \E l \in Slots \ {loc} : loc' = l
    /\ stack' = <<"main_97">> \o stack
    /\ pc' = "buf_drop_45"
    /\ UNCHANGED <<entry, source, heap, owned, taken, ret, ops, out>>

main_println_finished ==
    /\ pc = "main_97"
    /\ out' = Append(out, Line("Finished drop.", <<>>))
    /\ pc' = "done"
    /\ UNCHANGED <<entry, source, heap, owned, loc, taken, stack, ret, ops>>

\* ----------------------------------------------------- StyleSheetBuf::drop
\* StyleSheetBuf::drop with the release of the String placed before the take
StyleSheetBuf_drop_release_first ==
    /\ pc = "buf_drop_45"
    /\ heap' = [heap EXCEPT ![owned.val.source_ptr] =
                    [live |-> FALSE, frees |-> @.frees + 1, content |-> @.content]]
    /\ owned' = Some(StyleSheetBuf(owned.val.source_ptr, None))
    /\ taken' = owned.val.sheet
    /\ pc' = "sheet_drop_84"
    /\ stack' = <<"drop_glue">> \o stack
    /\ UNCHANGED <<entry, source, loc, ret, ops, out>>

\* StyleSheetBuf::drop without the explicit drop of the sheet: the field is
\* left to be dropped after the body
StyleSheetBuf_drop_take_skipped ==
    /\ pc = "buf_drop_45"
    /\ pc' = "buf_drop_49"
    /\ UNCHANGED <<entry, source, heap, owned, loc, taken, stack, ret, ops, out>>

\* StyleSheetBuf::drop running the sheet's destructor in place
\* (ptr::drop_in_place(&mut self.sheet)): the field stays Some
StyleSheetBuf_drop_in_place ==
    /\ pc = "buf_drop_45"
    /\ taken' = owned.val.sheet
    /\ IF owned.val.sheet.some
       THEN /\ pc' = "sheet_drop_84"
            /\ stack' = <<"buf_drop_49">> \o stack
       ELSE /\ pc' = "buf_drop_49"
            /\ stack' = stack
    /\ UNCHANGED <<entry, source, heap, owned, loc, ret, ops, out>>

\* drop(self.sheet.take()): the field becomes None and the Option taken out
\* is dropped, which runs StyleSheet::drop when it is Some.
StyleSheetBuf_drop_take ==
    /\ pc = "buf_drop_45"
    /\ owned' = Some(StyleSheetBuf(owned.val.source_ptr, None))
    /\ taken' = owned.val.sheet
    /\ IF owned.val.sheet.some
       THEN /\ pc' = "sheet_drop_84"
            /\ stack' = <<"buf_drop_49">> \o stack
       ELSE /\ pc' = "buf_drop_49"
            /\ stack' = stack
    /\ UNCHANGED <<entry, source, heap, loc, ret, ops, out>>

StyleSheetBuf_drop_println ==
    /\ pc = "buf_drop_49"
    /\ out' = Append(out, Line("  Will drop StyleSheetBuf...", <<>>))
    /\ pc' = "buf_drop_54"
    /\ UNCHANGED <<entry, source, heap, owned, loc, taken, stack, ret, ops>>

\* StyleSheetBuf::drop without the from_raw: the String is never released
StyleSheetBuf_drop_from_raw_leak ==
    /\ pc = "buf_drop_54"
    /\ pc' = "buf_drop_57"
    /\ UNCHANGED <<entry, source, heap, owned, loc, taken, stack, ret, ops, out>>

\* drop(Box::from_raw(self.source_ptr)): the String and its box are released
StyleSheetBuf_drop_from_raw ==
    /\ pc = "buf_drop_54"
    /\ heap' = [heap EXCEPT ![owned.val.source_ptr] =
                    [live |-> FALSE, frees |-> @.frees + 1, content |-> @.content]]
    /\ pc' = "buf_drop_57"
    /\ UNCHANGED <<entry, source, owned, loc, taken, stack, ret, ops, out>>

StyleSheetBuf_drop_done ==
    /\ pc = "buf_drop_57"
    /\ out' = Append(out, Line("    Done.", <<>>))
    /\ pc' = "drop_glue"
    /\ UNCHANGED <<entry, source, heap, owned, loc, taken, stack, ret, ops>>

\* the glue of a `source: Box<String>` field: the pointer is released again
StyleSheetBuf_drop_glue_frees ==
    /\ pc = "drop_glue"
    /\ heap' = [heap EXCEPT ![owned.val.source_ptr] =
                    [live |-> FALSE, frees |-> @.frees + 1, content |-> @.content]]
    /\ owned' = None
    /\ pc' = Head(stack)
    /\ stack' = Tail(stack)
    /\ UNCHANGED <<entry, source, loc, taken, ret, ops, out>>

\* After Drop::drop returns, the fields are dropped in declaration order:
\* source_ptr (a raw pointer, nothing to do), then sheet, whose destructor
\* runs if the Option still is Some. Then the value is gone.
StyleSheetBuf_drop_glue ==
    /\ pc = "drop_glue"
    /\ IF owned.val.sheet.some
       THEN /\ taken' = owned.val.sheet
            /\ owned' = Some(StyleSheetBuf(owned.val.source_ptr, None))
            /\ pc' = "sheet_drop_84"
            /\ stack' = <<"drop_glue">> \o stack
       ELSE /\ owned' = None
            /\ taken' = taken
            /\ pc' = Head(stack)
            /\ stack' = Tail(stack)
    /\ UNCHANGED <<entry, source, heap, loc, ret, ops, out>>

\* -------------------------------------------------------- StyleSheet::drop
StyleSheet_drop_println ==
    /\ pc = "sheet_drop_84"
    /\ out' = Append(out, Line("  Will drop StyleSheet:", <<>>))
    /\ pc' = "sheet_drop_85"
    /\ UNCHANGED <<entry, source, heap, owned, loc, taken, stack, ret, ops>>

StyleSheet_drop_final_read ==
    /\ pc = "sheet_drop_85"
    /\ \E t \in StrAt(heap, taken.val.parsed) :
        out' = Append(out, Line("    Just making a final read... -> {:?}", t))
    /\ pc' = "sheet_drop_86"
    /\ UNCHANGED <<entry, source, heap, owned, loc, taken, stack, ret, ops>>

StyleSheet_drop_done ==
    /\ pc = "sheet_drop_86"
    /\ out' = Append(out, Line("    Done.", <<>>))
    /\ taken' = None
    /\ pc' = Head(stack)
    /\ stack' = Tail(stack)
    /\ UNCHANGED <<entry, source, heap, owned, loc, ret, ops>>

\* ------------------------------------------------------------- parse_file
\* parse_file boxing an empty String before the read: the panic leaves it behind
parse_file_read_alloc_first ==
    /\ pc = "start" /\ entry = "parse_file"
    /\ \/ /\ \E s \in Strings : source' = Some(s)
          /\ pc' = "pf_107"
          /\ heap' = heap
       \/ /\ source' = source
          /\ pc' = "panicked"
          /\ \E a \in Addrs :
                heap' = [heap EXCEPT ![a] = [live |-> TRUE, frees |-> 0, content |-> <<>>]]
    /\ UNCHANGED <<entry, owned, loc, taken, stack, ret, ops, out>>

\* std::fs::read_to_string(path).unwrap(): the file's text, or a panic
parse_file_read ==
    /\ pc = "start" /\ entry = "parse_file"
    /\ \/ \E s \in Strings : source' = Some(s) /\ pc' = "pf_107"
       \/ source' = source /\ pc' = "panicked"
    /\ UNCHANGED <<entry, heap, owned, loc, taken, stack, ret, ops, out>>

parse_file_new ==
    /\ pc = "pf_107"
    /\ CallNew("caller")

\* ------------------------------------------- the holder of the result
\* Whoever receives parse_file's StyleSheetBuf may call sheet(), use it
\* through Deref, hand it to print_parsed and move it, before its scope ends.
caller_sheet ==
    /\ pc = "caller" /\ ops < MaxOps
    /\ \E v \in sheet(owned.val) : ret' = Some(v)
    /\ ops' = ops + 1
    /\ pc' = "caller_borrow"
    /\ UNCHANGED <<entry, source, heap, owned, loc, taken, stack, out>>

\* the reference sheet() handed out goes out of use
caller_end_borrow ==
    /\ pc = "caller_borrow"
    /\ ret' = None
    /\ pc' = "caller"
    /\ UNCHANGED <<entry, source, heap, owned, loc, taken, stack, ops, out>>

\* print_parsed(buf.sheet())
caller_print_parsed_sheet ==
    /\ pc = "caller_borrow"
    /\ stack' = <<"caller">> \o stack
    /\ pc' = "print_parsed_101"
    /\ UNCHANGED <<entry, source, heap, owned, loc, taken, ret, ops, out>>

\* print_parsed(&buf): the argument is coerced through Deref, as in main
caller_print_parsed ==
    /\ pc = "caller" /\ ops < MaxOps
    /\ \E v \in deref(owned.val) : ret' = Some(v)
    /\ ops' = ops + 1
    /\ stack' = <<"caller">> \o stack
    /\ pc' = "print_parsed_101"
    /\ UNCHANGED <<entry, source, heap, owned, loc, taken, out>>

\* a move of a container that embeds the String: the text goes to a new address
caller_move_relocates ==
    /\ pc = "caller" /\ ops < MaxOps
    /\ \E l \in Slots \ {loc} : loc' = l
    /\ \E a \in Addrs \ {owned.val.source_ptr} :
        /\ heap' = [heap EXCEPT
                ![a] = [live |-> TRUE, frees |-> 0,
                        content |-> heap[owned.val.source_ptr].content],
                ![owned.val.source_ptr] = FreeCell]
        /\ owned' = Some(StyleSheetBuf(a, owned.val.sheet))
    /\ ops' = ops + 1
    /\ UNCHANGED <<pc, entry, source, taken, stack, ret, out>>

caller_move ==
    /\ pc = "caller" /\ ops < MaxOps
    /\ \E l \in Slots \ {loc} : loc' = l
    /\ ops' = ops + 1
    /\ UNCHANGED <<pc, entry, source, heap, owned, taken, stack, ret, out>>

caller_scope_end ==
    /\ pc = "caller"
    /\ stack' = <<"done">> \o stack
    /\ pc' = "buf_drop_45"
    /\ UNCHANGED <<entry, source, heap, owned, loc, taken, ret, ops, out>>

\* ------------------------------------------------------------------- Next
Next ==
    \/ main_String_from
    \/ main_new
    \/ main_print_parsed
    \/ print_parsed
    \/ main_println_will_drop
    \/ main_drop
    \/ main_println_finished
    \/ StyleSheetBuf_drop_take
    \/ StyleSheetBuf_drop_println
    \/ StyleSheetBuf_drop_from_raw
    \/ StyleSheetBuf_drop_done
    \/ StyleSheetBuf_drop_glue
    \/ StyleSheet_drop_println
    \/ StyleSheet_drop_final_read
    \/ StyleSheet_drop_done
    \/ parse_file_read
    \/ parse_file_new
    \/ caller_sheet
    \/ caller_end_borrow
    \/ caller_print_parsed_sheet
    \/ caller_print_parsed
    \/ caller_move
    \/ caller_scope_end

Spec == Init /\ [][Next]_vars

\* The thread is never descheduled for good: every statement reached runs.
LiveSpec == Spec /\ WF_vars(Next)

\* ============================================================ properties
\* ---------------------------------------------------------- vocabulary
Released(a) == ~heap[a].live /\ heap[a].frees > 0

\* number of lines of standard output with the given format string
RECURSIVE CountFmt(_, _)
CountFmt(o, fmt) ==
    IF o = <<>> THEN 0
    ELSE (IF Head(o).fmt = fmt THEN 1 ELSE 0) + CountFmt(Tail(o), fmt)

\* StyleSheet::drop runs that have begun / have printed their "Done."
ViewDropsStarted == CountFmt(out, "  Will drop StyleSheet:")
ViewDropsCompleted ==
    Cardinality({i \in 1..(Len(out) - 1) :
        /\ out[i].fmt = "    Just making a final read... -> {:?}"
        /\ out[i + 1].fmt = "    Done."})

InViewDrop == pc \in {"sheet_drop_84", "sheet_drop_85", "sheet_drop_86"}

\* The state of the container's life cycle, read off the fields and the heap
State ==
    IF owned.some
    THEN IF heap[owned.val.source_ptr].live
         THEN (IF owned.val.sheet.some THEN "Constructed" ELSE "Destroying")
         ELSE (IF owned.val.sheet.some THEN "ViewLiveBufferReleased" ELSE "Destroyed")
    ELSE IF \E a \in Addrs : heap[a].live THEN "Leaked"
         ELSE IF \E a \in Addrs : heap[a].frees > 0 THEN "Destroyed"
         ELSE "Uninitialized"

\* the text the container's view denotes
ViewText == CHOOSE t \in StrAt(heap, owned.val.sheet.val.parsed) : TRUE

\* ----------------------------------------------------------------- C1
\* C1: whenever the String has been released, StyleSheet::drop has already
\* run to its end (it started, made its final read, printed Done, and is
\* not running), and while StyleSheet::drop runs the String it reads is live.
C1_ViewDroppedBeforeRelease ==
    /\ \A a \in Addrs :
        Released(a) =>
            /\ ViewDropsStarted >= 1
            /\ ViewDropsCompleted = ViewDropsStarted
            /\ ~InViewDrop
            /\ ~taken.some
    /\ InViewDrop =>
        /\ taken.some
        /\ heap[taken.val.parsed.addr].live

C1_Witness ==
    /\ \E a \in Addrs : Released(a)
    /\ ViewDropsCompleted = 1
    /\ pc = "buf_drop_57"

\* ----------------------------------------------------------------- C2
\* C2: whenever the container's sheet field is Some, the String behind
\* source_ptr is allocated and not released.
C2_ViewHeldImpliesBufferLive ==
    (owned.some /\ owned.val.sheet.some) =>
        /\ heap[owned.val.source_ptr].live
        /\ heap[owned.val.source_ptr].frees = 0

C2_Witness ==
    /\ owned.some /\ owned.val.sheet.some
    /\ heap[owned.val.source_ptr].live
    /\ ops = MaxOps

C4_ReleasedAtMostOnce ==
    /\ [](\A a \in Addrs : heap[a].frees <= 1)
    /\ [](Cardinality({a \in Addrs : heap[a].frees > 0}) <= 1)
    /\ [][(\E a \in Addrs : heap'[a].frees > heap[a].frees)
            => (pc = "buf_drop_54" /\ State = "Destroying" /\ State' = "Destroyed")]_vars
    /\ [][State = "Destroyed" => State' = "Destroyed"]_vars

C4_Witness ==
    /\ pc = "done"
    /\ \E a \in Addrs : heap[a].frees = 1

\* ----------------------------------------------------------------- C5
\* C5: every container constructed is eventually gone with its String
\* released exactly once and nothing left allocated, and a teardown that
\* has dropped the view goes on to release the String.
C5_EventuallyReleased ==
    /\ owned.some ~>
        (/\ ~owned.some
         /\ \A a \in Addrs : ~heap[a].live
         /\ \E a \in Addrs : heap[a].frees = 1)
    /\ (State = "Destroying") ~> (State = "Destroyed")

C5_Witness ==
    /\ pc = "done"
    /\ ~owned.some
    /\ \A a \in Addrs : ~heap[a].live
    /\ \E a \in Addrs : Released(a)

\* ----------------------------------------------------------------- C6
Rank(st) ==
    CASE st = "Uninitialized" -> 0
      [] st = "Constructed" -> 1
      [] st = "Destroying" -> 2
      [] st = "Destroyed" -> 3
      [] OTHER -> 9

\* C6: the container is always in one of the four states, never in the
\* state (View live, Buffer released); every step keeps the state or moves
\* it to the next one in the order Uninitialized, Constructed, Destroying,
\* Destroyed; nothing leaves Destroyed.
C6_LifeCycleOrder ==
    /\ [](State \in {"Uninitialized", "Constructed", "Destroying", "Destroyed"})
    /\ [][Rank(State') = Rank(State) \/ Rank(State') = Rank(State) + 1]_vars
    /\ [][State = "Destroyed" => State' = "Destroyed"]_vars

C6_Witness ==
    /\ State = "Destroying"
    /\ pc = "buf_drop_54"
    /\ ViewDropsCompleted = 1

\* ----------------------------------------------------------------- C7
\* v is s without its leading and trailing whitespace: s is a run of
\* whitespace, then v, then a run of whitespace, and v neither begins nor
\* ends with whitespace.
IsTrimOf(v, s) ==
    \E i \in 0..Len(s), j \in 0..Len(s) :
        /\ i + Len(v) + j = Len(s)
        /\ SubSeq(s, i + 1, i + Len(v)) = v
        /\ \A k \in 1..i : IsWhitespace(s[k])
        /\ \A k \in (Len(s) - j + 1)..Len(s) : IsWhitespace(s[k])
        /\ v # <<>> => (~IsWhitespace(v[1]) /\ ~IsWhitespace(v[Len(v)]))

\* C7: the step that constructs a container from the String s stores s
\* unchanged, and the text sheet() then gives is s without its leading and
\* trailing whitespace, a range inside the stored text.
C7_ViewIsTrimOfInput ==
    [][(~owned.some /\ owned'.some) =>
        /\ source.some
        /\ heap'[owned'.val.source_ptr].content = source.val
        /\ \A v \in sheet(owned'.val) :
            /\ v.parsed.start >= 1
            /\ v.parsed.start + v.parsed.len - 1 <= Len(source.val)
            /\ \A t \in StrAt(heap', v.parsed) : IsTrimOf(t, source.val)]_vars

C7_Witness ==
    /\ State = "Constructed"
    /\ heap[owned.val.source_ptr].content = <<" ", "a", "\n">>
    /\ ViewText = <<"a">>

\* ----------------------------------------------------------------- C8
AllWhitespace(s) == \A k \in 1..Len(s) : IsWhitespace(s[k])

\* C8: constructing from the empty String or from a String of whitespace
\* only ends in the Constructed state, not in a panic, with an empty view.
C8_BlankInputGivesEmptyView ==
    [][(pc \in {"main_92", "pf_107"} /\ AllWhitespace(source.val)) =>
        /\ pc' \in {"main_94", "caller"}
        /\ State' = "Constructed"
        /\ owned'.val.sheet.val.parsed.len = 0
        /\ StrAt(heap', owned'.val.sheet.val.parsed) = {<<>>}]_vars

C8_Witness ==
    /\ State = "Constructed"
    /\ heap[owned.val.source_ptr].content = <<" ", "\n">>
    /\ ViewText = <<>>

\* ----------------------------------------------------------------- C9
\* C9: a step from a Constructed state to a Constructed state (sheet(),
\* deref, print_parsed, a move, a println) changes neither the heap nor the
\* container's fields, and a view it hands out denotes the text the
\* container's view denoted before the step.
C9_BufferNeverMutated ==
    [][(State = "Constructed" /\ State' = "Constructed") =>
        /\ heap' = heap
        /\ owned' = owned
        /\ ret'.some => StrAt(heap', ret'.val.parsed) = {ViewText}]_vars

C9_Witness ==
    /\ State = "Constructed"
    /\ ops = 2
    /\ loc = 2
    /\ CountFmt(out, "parsed: {:?}") = 1
    /\ pc = "caller_borrow"
    /\ ViewText = <<"a", " ", ".">>

\* ---------------------------------------------------------------- C10
\* C10: the step that passes the container where a &StyleSheet is expected
\* hands over exactly the view sheet() returns, with the same text, and
\* leaves the container, the heap and the container's place unchanged.
C10_DerefIsSheet ==
    [][(pc \in {"main_94", "caller"} /\ pc' = "print_parsed_101") =>
        /\ State = "Constructed"
        /\ ret' \in {Some(v) : v \in sheet(owned.val)}
        /\ StrAt(heap', ret'.val.parsed) = {ViewText}
        /\ owned' = owned /\ heap' = heap /\ loc' = loc]_vars

C10_Witness ==
    /\ pc = "print_parsed_101"
    /\ Head(stack) = "main_95"
    /\ ret = owned.val.sheet
    /\ ViewText = <<"a", ".">>
    /\ heap[owned.val.source_ptr].content = <<" ", "a", ".">>

\* ---------------------------------------------------------------- C11
\* C11: when read_to_string fails, parse_file panics at once: the panic is
\* reached only from the start of parse_file, and in the panicked state no
\* String is or was allocated, no source text is held, no container exists,
\* no view was handed out, and the run stays there.
C11_UpstreamFailureBeforeConstruction ==
    /\ [](pc = "panicked" =>
            /\ entry = "parse_file"
            /\ State = "Uninitialized"
            /\ \A a \in Addrs : heap[a] = FreeCell
            /\ ~owned.some /\ ~source.some /\ ~ret.some /\ ~taken.some
            /\ out = <<>>)
    /\ [][pc' = "panicked" => (pc \in {"start", "panicked"} /\ heap' = heap /\ owned' = owned)]_vars
    /\ [][pc = "panicked" => pc' = "panicked"]_vars

C11_Witness ==
    /\ pc = "panicked"
    /\ entry = "parse_file"
    /\ ~owned.some

\* ---------------------------------------------------------------- C12
\* C12: in every Constructed state, trimming the view's text returns the
\* whole of it, and a second container built from that text at any free
\* address has a view that denotes the same text.
C12_TrimIdempotent ==
    State = "Constructed" =>
        /\ trim(ViewText) = [first |-> 1, len |-> Len(ViewText)]
        /\ \A a \in Addrs :
            ~heap[a].live =>
                LET r == new(heap, ViewText, a) IN
                \A v \in sheet(r.buf) : StrAt(r.heap, v.parsed) = {ViewText}

C12_Witness ==
    /\ State = "Constructed"
    /\ heap[owned.val.source_ptr].content = <<" ", "\n", "a">>
    /\ ViewText = <<"a">>
    /\ \E a \in Addrs : ~heap[a].live

\* ---------------------------------------------------------------- C13
\* the view's slice lies inside the text of the live String behind source_ptr
ViewRangeValid ==
    LET p == owned.val.sheet.val.parsed IN
    /\ p.addr = owned.val.source_ptr
    /\ heap[p.addr].live
    /\ p.start >= 1
    /\ p.start + p.len - 1 <= Len(heap[p.addr].content)

\* C13: a step that moves the container to another place leaves source_ptr,
\* the view and the heap as they were, and whenever the container holds a
\* view, wherever it has been moved, the view is a valid range of the live
\* String behind source_ptr.
C13_MoveKeepsViewValid ==
    /\ [][(owned.some /\ owned'.some /\ loc' # loc) =>
            /\ owned' = owned
            /\ heap' = heap
            /\ State = "Constructed" /\ State' = "Constructed"]_vars
    /\ []((owned.some /\ owned.val.sheet.some) => ViewRangeValid)

C13_Witness ==
    /\ entry = "main"
    /\ pc = "buf_drop_45"
    /\ loc # 1
    /\ State = "Constructed"
    /\ ViewRangeValid
    /\ ViewText = <<"a", ".">>

\* ---------------------------------------------------------------- C14
DestructorPcs ==
    {"sheet_drop_84", "sheet_drop_85", "sheet_drop_86",
     "buf_drop_49", "buf_drop_54", "buf_drop_57", "drop_glue"}

\* the states in which the holder can still call sheet() or use Deref
HolderPcs ==
    {"main_94", "print_parsed_101", "main_95", "main_96", "caller", "caller_borrow"}

\* C14: a container whose sheet field is None is inside its destructor, in
\* every state in which its holder can call sheet() or deref the field is
\* Some, and every reference those calls return is the field's value.
C14_SheetNoneOnlyInDrop ==
    /\ (owned.some /\ ~owned.val.sheet.some) => pc \in DestructorPcs
    /\ pc \in HolderPcs => (owned.some /\ owned.val.sheet.some)
    /\ ret.some => (pc \in HolderPcs /\ ret = owned.val.sheet)

C14_Witness ==
    /\ pc = "caller_borrow"
    /\ ret.some
    /\ ret = owned.val.sheet
    /\ ops = 2

\* ---------------------------------------------------------------- C15
\* C15: StyleSheet::drop starts at most once in a run, the field drop after
\* StyleSheetBuf::drop finds sheet None and does not start it, it never
\* starts once the String is released, and when the container is gone it
\* has run exactly once.
C15_ViewDroppedExactlyOnce ==
    /\ [](ViewDropsStarted <= 1)
    /\ [](pc = "drop_glue" => ~owned.val.sheet.some)
    /\ [][pc = "drop_glue" => pc' \notin {"sheet_drop_84", "sheet_drop_85", "sheet_drop_86"}]_vars
    /\ []((\E a \in Addrs : Released(a)) => (ViewDropsStarted = 1 /\ ViewDropsCompleted = 1))
    /\ [](pc = "done" => (ViewDropsStarted = 1 /\ ViewDropsCompleted = 1))

C15_Witness ==
    /\ pc \in {"main_97", "done"}
    /\ ~owned.some
    /\ ViewDropsStarted = 1
    /\ ViewDropsCompleted = 1
    /\ \E a \in Addrs : Released(a)

\* ---------------------------------------------------------------- C16
\* the format strings main's run prints, in order
MainOutput ==
    <<"parsed: {:?}",
      "Will drop...",
      "  Will drop StyleSheet:",
      "    Just making a final read... -> {:?}",
      "    Done.",
      "  Will drop StyleSheetBuf...",
      "    Done.",
      "Finished drop.">>

Fmts(o) == [i \in 1..Len(o) |-> o[i].fmt]

\* C16: in a run of main the output is always a prefix of MainOutput and is
\* all of it at the end, the String is released between the sixth and the
\* seventh line, and the final read prints the text print_parsed printed.
C16_MainEventOrder ==
    /\ [](entry = "main" =>
            /\ Len(out) <= Len(MainOutput)
            /\ Fmts(out) = SubSeq(MainOutput, 1, Len(out))
            /\ Len(out) >= 4 => out[4].arg = out[1].arg)
    /\ []((entry = "main" /\ pc = "done") => Fmts(out) = MainOutput)
    /\ []((entry = "main" /\ \E a \in Addrs : Released(a)) => Len(out) >= 6)
    /\ []((entry = "main" /\ Len(out) >= 7) => \E a \in Addrs : Released(a))

C16_Witness ==
    /\ entry = "main"
    /\ pc = "done"
    /\ Fmts(out) = MainOutput
    /\ out[1].arg = <<"a", ".">>
    /\ out[4].arg = <<"a", ".">>

====
